---- MODULE Spec2Model ----
(***************************************************************************)
(* Benchmark orchestrator of map-compare (benchmark.js) together with the  *)
(* benchmark modal handlers of main.js that call it.                       *)
(*                                                                         *)
(* JavaScript runs one task at a time: every action below is one task (a   *)
(* click handler, a timer callback, an animation-frame callback) together  *)
(* with the promise continuations it makes runnable, except that the       *)
(* continuation of the start-click handler after the run promise settles   *)
(* is its own action, which nothing may precede (microtask priority).      *)
(* Calls into the map adapters (the MODULES table) are external: each may  *)
(* return or throw.  The frame-time samples of one measurement are         *)
(* abstracted to the metrics record that calculateMetrics returns.         *)
(***************************************************************************)
EXTENDS Integers, Sequences, FiniteSets, TLC

\* ------------------------------------------------------------ configuration
\* The matrix of the source is 4 libraries x 4 point counts x 3 iterations;
\* the model runs a smaller matrix of the same shape.
LIBRARIES == <<"leaflet", "deckgl">>
POINT_COUNTS == <<500>>
ITERATIONS == 2

\* Number of runBenchmark() calls in one behaviour.
MaxRuns == 2

RunIds == 1..MaxRuns

\* A test is the object {lib, count} of generateTestOrder.
Configs == {[lib |-> LIBRARIES[l], count |-> POINT_COUNTS[c]] :
              l \in DOMAIN LIBRARIES, c \in DOMAIN POINT_COUNTS}

NumConfigs == Len(LIBRARIES) * Len(POINT_COUNTS)

\* const totalTests = LIBRARIES.length * POINT_COUNTS.length * ITERATIONS
totalTests == Len(LIBRARIES) * Len(POINT_COUNTS) * ITERATIONS

Range(s) == {s[i] : i \in DOMAIN s}

\* ------------------------------------------------------------------ values
\* JavaScript null / undefined.
Null == [null |-> TRUE]
Undefined == -1

CancelledMsg == "Benchmark cancelled"
TypeErrorMsg == "TypeError"
AdapterFaultMsg == "adapter fault"

\* Math.round(a / b) for a >= 0, b > 0.
RoundDiv(a, b) == (2 * a + b) \div (2 * b)

RECURSIVE SumRange(_, _, _)
SumRange(s, lo, hi) ==
  IF lo > hi THEN 0
  ELSE IF lo = hi THEN s[lo]
  ELSE LET mid == (lo + hi) \div 2
       IN SumRange(s, lo, mid) + SumRange(s, mid + 1, hi)

SumSeq(s) == SumRange(s, 1, Len(s))

\* The first value taken for the smallest.
MinSeqFirst(s) == s[1]

RECURSIVE MinSeq(_)
MinSeq(s) == IF Len(s) = 1 THEN s[1]
             ELSE LET m == MinSeq(Tail(s)) IN IF s[1] < m THEN s[1] ELSE m

RECURSIVE MaxSeq(_)
MaxSeq(s) == IF Len(s) = 1 THEN s[1]
             ELSE LET m == MaxSeq(Tail(s)) IN IF s[1] > m THEN s[1] ELSE m

\* [...a].sort((a, b) => a - b)
SortNum(s) == SortSeq(s, LAMBDA a, b : a < b)

\* The zero-metric result of calculateMetrics (fewer than 10 samples): it has
\* no medianFps property.  avgFrameTime and jitter are in 1/100 ms.
ZeroMetrics == [avgFps |-> 0, minFps |-> 0, maxFps |-> 0, medianFps |-> Undefined,
                avgFrameTime |-> 0, jitter |-> 0, outliersExcluded |-> 0]

\* Results of calculateMetrics on ten or more samples, as returned by the
\* collector (with the two diagnostics it adds).
SteadyMetrics == [avgFps |-> 60, minFps |-> 58, maxFps |-> 62, medianFps |-> 60,
                  avgFrameTime |-> 1667, jitter |-> 12, outliersExcluded |-> 1]

WithDiagnostics(m, gap, warnings) ==
  [avgFps |-> m.avgFps, minFps |-> m.minFps, maxFps |-> m.maxFps,
   medianFps |-> m.medianFps, avgFrameTime |-> m.avgFrameTime,
   jitter |-> m.jitter, outliersExcluded |-> m.outliersExcluded,
   maxFrameGap |-> gap, throttleWarnings |-> warnings]

\* What one collector run can resolve with.
CollectorResults == {WithDiagnostics(ZeroMetrics, 0, 0),
                     WithDiagnostics(SteadyMetrics, 112, 1)}

\* ------------------------------------------------------------- Results Store
\* benchmarkResults = {}
EmptyObject == [c \in {} |-> Null]

\* A results structure that starts with one stale iteration result.
createResultsWithStaleIteration ==
  [c \in Configs |-> [iterations |-> <<WithDiagnostics(ZeroMetrics, 0, 0)>>,
                      combined |-> Null]]

createEmptyResults == [c \in Configs |-> [iterations |-> <<>>, combined |-> Null]]

\* i.medianFps || i.avgFps
MedianOrAvg(i) == IF i.medianFps = Undefined \/ i.medianFps = 0 THEN i.avgFps
                  ELSE i.medianFps

\* The index of the smallest value taken for the median's.
MedianIndexFirst(n) == 0

\* The index of the median taken for the third quartile's.
Q3IndexHalf(n) == n \div 2

\* Math.floor(n * 0.25), Math.floor(n * 0.75), Math.floor(n / 2), 0-based.
Q1Index(n) == n \div 4
Q3Index(n) == (3 * n) \div 4
MedianIndex(n) == n \div 2

\* The object assigned to results[lib][count].combined.
CombinedOf(iterations) ==
  LET n == Len(iterations)
      allFps == [k \in 1..n |-> iterations[k].avgFps]
      allMedianFps == [k \in 1..n |-> MedianOrAvg(iterations[k])]
      allFrameTimes == [k \in 1..n |-> iterations[k].avgFrameTime]
      allJitter == [k \in 1..n |-> iterations[k].jitter]
      allMinFps == [k \in 1..n |-> iterations[k].minFps]
      allMaxFps == [k \in 1..n |-> iterations[k].maxFps]
      sortedFps == SortNum(allMedianFps)
      sortedJitter == SortNum(allJitter)
      medianIndex == MedianIndex(n)
      fpsIqr == IF n >= 4 THEN sortedFps[Q3Index(n) + 1] - sortedFps[Q1Index(n) + 1]
                ELSE IF n >= 2 THEN sortedFps[n] - sortedFps[1]
                ELSE 0
  IN [medianFps |-> sortedFps[medianIndex + 1],
      avgFps |-> RoundDiv(SumSeq(allFps), n),
      minFps |-> MinSeq(allMinFps),
      maxFps |-> MaxSeq(allMaxFps),
      avgFrameTime |-> RoundDiv(SumSeq(allFrameTimes), n),
      jitter |-> sortedJitter[medianIndex + 1],
      fpsIqr |-> fpsIqr,
      totalOutliersExcluded |->
        SumSeq([k \in 1..n |-> iterations[k].outliersExcluded]),
      iterationDetails |-> iterations]

\* calculateCombinedStats(results) on a store created by createEmptyResults.
calculateCombinedStats(results) ==
  [c \in Configs |->
     IF Len(results[c].iterations) = 0 THEN results[c]
     ELSE [iterations |-> results[c].iterations,
           combined |-> CombinedOf(results[c].iterations)]]

\* ------------------------------------------------------------ test order
\* tests.push({lib, count}) in the nested loops of generateTestOrder.
OrderedTests ==
  [k \in 1..NumConfigs |->
     [lib |-> LIBRARIES[((k - 1) \div Len(POINT_COUNTS)) + 1],
      count |-> POINT_COUNTS[((k - 1) % Len(POINT_COUNTS)) + 1]]]

\* The draws of Math.floor(Math.random() * (i + 1)), one per loop index
\* i = length-1 .. 1 (here 1-based: position i+1 draws from 1..i+1).
RandomDraws == {js \in [2..NumConfigs -> 1..NumConfigs] :
                  \A i \in 2..NumConfigs : js[i] <= i}

\* Swap with the write-back of tests[j] lost.
SwapLosesElement(tests, i, j) == [tests EXCEPT ![i] = tests[j]]

\* [tests[i], tests[j]] = [tests[j], tests[i]]
Swap(tests, i, j) == [tests EXCEPT ![i] = tests[j], ![j] = tests[i]]

\* The shuffle loop stopping one position early (i > 1).
RECURSIVE FisherYatesStopsEarly(_, _, _)
FisherYatesStopsEarly(tests, i, js) ==
  IF i < 3 THEN tests ELSE FisherYatesStopsEarly(Swap(tests, i, js[i]), i - 1, js)

RECURSIVE FisherYates(_, _, _)
FisherYates(tests, i, js) ==
  IF i < 2 THEN tests ELSE FisherYates(Swap(tests, i, js[i]), i - 1, js)

generateTestOrder(js) == FisherYates(OrderedTests, NumConfigs, js)

\* ------------------------------------------------------------------- state
VARIABLES
  benchmarkState,    \* let benchmarkState
  abortController,   \* let abortController: 0 is null, r the controller made by run r
  aborted,           \* the controllers whose signal.aborted is true
  benchmarkResults,  \* let benchmarkResults
  animationBuffers,  \* const animationBuffers: the point counts that have a buffer
  runs,              \* the runBenchmark() invocations: locals, position, promise
  btnDisabled,       \* benchmark-btn.disabled
  modalActive,       \* benchmark-modal has class 'active'
  resultsDisplay,    \* benchmark-results style.display
  benchmarkChart,    \* let benchmarkChart (main.js): TRUE when a chart exists
  \* The data functions in detail (specification SpecWorkload); the
  \* orchestrator's specification Spec knows a workload by its count only.
  pointCount,        \* the entry of POINT_COUNTS under study
  pointDataCache,    \* const pointDataCache of each runBenchmark() call, at pointCount
  bufferMap,         \* animationBuffers with its values: count -> {baseCoords, animatedPoints}
  lastUpdate,        \* the last updateAnimatedPoints call: arguments and returned collection
  generated,         \* what getPoints returned to each run, as it was then
  adapterPoints,     \* the last collection handed to an adapter, and by which call
  \* The Statistics Reducer in detail (specification SpecMetrics).
  frameTimes,        \* const frameTimes: the raw samples handed to calculateMetrics, 1/100 ms
  sampleMetrics,     \* what calculateMetrics(frameTimes) returned, Null before the call
  filtered,          \* the last application of the IQR filter: its input and its output
  \* The cross-iteration reduction in detail (specification SpecCombine).
  iterationResults,  \* results[lib][count].iterations of one configuration
  combinedResult,    \* results[lib][count].combined of that configuration
  \* The Sample Collector in detail (specification SpecCollector); its
  \* frameTimes is the variable above.  Times are in 1/100 ms.
  clock,             \* performance.now() at the last frame callback
  tickInterval,      \* the interval at which frame callbacks arrive
  lastFrameTime,     \* let lastFrameTime
  isWarmup,          \* let isWarmup
  maxFrameGap,       \* let maxFrameGap
  throttleWarnings,  \* let throttleWarnings
  resolved,          \* the value runMeasuredAnimation's promise resolved with, Null before
  warmupMs,          \* parameter warmupMs
  durationMs,        \* parameter durationMs
  signalAborted,     \* parameter signal: signal.aborted
  listening,         \* handleVisibilityChange is registered on the document
  framePending,      \* a requested animation frame has not fired yet
  collectorPromise,  \* the promise of runMeasuredAnimation: its state, its error
  backendPoints,     \* the collection the adapter MODULES[lib] was last handed
  testPc,            \* the caller: "collector" awaiting, then "stored" or "caught"
  \* The layers around a test (specification SpecLayers).
  layerState,        \* const layerState (main.js): what the checkboxes show
  layerVisibility,   \* the visibility of each layer in each backend
  underTest,         \* the backend whose layers a test has hidden, "none" otherwise
  preTestVisibility, \* layerVisibility of that backend when the test began
  \* The test orders of one run (specification SpecOrder).
  testOrders         \* the value of const testOrder in each iteration begun so far

workloadVars == <<pointCount, pointDataCache, bufferMap, lastUpdate, generated,
                  adapterPoints>>

metricsVars == <<frameTimes, sampleMetrics, filtered>>

combineVars == <<iterationResults, combinedResult>>

collectorVars == <<clock, tickInterval, lastFrameTime, isWarmup, maxFrameGap,
                   throttleWarnings, resolved, warmupMs, durationMs, signalAborted,
                   listening, framePending, collectorPromise, backendPoints, testPc>>

layerVars == <<layerState, layerVisibility, underTest, preTestVisibility>>

orderVars == <<testOrders>>

pureVars == <<workloadVars, metricsVars, combineVars, collectorVars, layerVars,
              orderVars>>

vars == <<benchmarkState, abortController, aborted, benchmarkResults,
          animationBuffers, runs,
          btnDisabled, modalActive, resultsDisplay, benchmarkChart, pureVars>>

uiVars == <<btnDisabled, modalActive, resultsDisplay, benchmarkChart>>

IterationIndexes == 0..(ITERATIONS - 1)

\* Positions of a runBenchmark() invocation:
\*   none     not called yet
\*   tab      awaiting switchToTab (its 250 ms timer)
\*   settle   awaiting delay(500)
\*   measure  awaiting runMeasuredAnimation, an animation frame is requested
\*   pause    awaiting delay(200)
\*   hung     a callback threw outside the promise: nothing is scheduled
\*   settled  the run promise has settled, the caller's continuation is queued
\*   closed   the caller's continuation has run
ActivePcs == {"tab", "settle", "measure", "pause"}

\* The fields visited, stored, cancelReq, steppedAfterCancel, faulted and
\* combinedBy record history; no transition reads them.
\*   visited[<<test, iteration>>]  times the run began that test in that iteration
\*   stored[test]         iteration results the run pushed for that test
\*   cancelReq            cancelBenchmark() was called while the run was active
\*   steppedAfterCancel   the run's last continuation ran after such a call
\*   faulted              where an adapter call threw: "callback", "tick", "adapter"
\*                        (the section of code cut short adds nothing to steps)
\*   combinedBy           the run executed calculateCombinedStats
\*   progress             the argument of the run's last onProgress call
\*   steps                the steps of the current test begun so far, in order
NewRun ==
  [pc |-> "none", iteration |-> 0, testOrder |-> <<>>, test |-> OrderedTests[1],
   currentTest |-> 0, signal |-> 0,
   promise |-> "pending", error |-> "none",
   visited |-> [t \in Configs \X IterationIndexes |-> 0],
   stored |-> [c \in Configs |-> 0],
   cancelReq |-> FALSE, steppedAfterCancel |-> FALSE, faulted |-> "none",
   combinedBy |-> FALSE, progress |-> Null, steps |-> <<>>]

LayerIds == {"points", "polygons", "lines", "heatmap", "cluster"}

\* const layerState of main.js, const layerVisibility of an adapter: the
\* same object literal.
DefaultLayers ==
  [layer \in LayerIds |-> layer \in {"points", "polygons", "lines"}]

\* An adapter's setLayerVisibility(layerId, visible): the layer is shown or
\* hidden, and showing the clusters hides the plain points.
setLayerVisibility(visibility, layerId, visible) ==
  [layer \in LayerIds |->
     IF layer = layerId THEN visible
     ELSE IF layer = "points" /\ layerId = "cluster" /\ visible THEN FALSE
     ELSE visibility[layer]]

\* function hideNonEssentialLayers(lib): the backend's visibility afterwards.
hideNonEssentialLayers(visibility) ==
  setLayerVisibility(
    setLayerVisibility(
      setLayerVisibility(
        setLayerVisibility(visibility, "polygons", FALSE),
        "lines", FALSE),
      "heatmap", FALSE),
    "cluster", FALSE)

\* function restoreLayers(lib): the backend's visibility afterwards.
restoreLayers(visibility) ==
  setLayerVisibility(setLayerVisibility(visibility, "polygons", TRUE), "lines", TRUE)

\* The module state of benchmark.js and the page after load, apart from
\* the layers.
InitPage ==
  /\ testOrders = <<>>
  /\ benchmarkState = "idle"
  /\ abortController = 0
  /\ aborted = {}
  /\ benchmarkResults = EmptyObject
  /\ animationBuffers = {}
  /\ runs = [r \in RunIds |-> NewRun]
  /\ btnDisabled = FALSE
  /\ modalActive = FALSE
  /\ resultsDisplay = ""
  /\ benchmarkChart = FALSE

\* The layers as the page loads them, no test having touched them.
InitLayerVars ==
  /\ layerState = DefaultLayers
  /\ layerVisibility = [lib \in Range(LIBRARIES) |-> DefaultLayers]
  /\ underTest = "none"
  /\ preTestVisibility = DefaultLayers

\* The layers when a test of backend lib has called hideNonEssentialLayers
\* (line 838) on the page as loaded.
InitLayerVarsUnderTest(lib) ==
  /\ layerState = DefaultLayers
  /\ layerVisibility = [l \in Range(LIBRARIES) |->
                          IF l = lib THEN hideNonEssentialLayers(DefaultLayers)
                          ELSE DefaultLayers]
  /\ underTest = lib
  /\ preTestVisibility = DefaultLayers

InitBenchmark ==
  /\ InitPage
  /\ InitLayerVars

\* No workload generated, no buffer made, updateAnimatedPoints not called.
InitWorkloadVars(count) ==
  /\ pointCount = count
  /\ pointDataCache = [r \in RunIds |-> Null]
  /\ bufferMap = EmptyObject
  /\ lastUpdate = Null
  /\ generated = [r \in RunIds |-> Null]
  /\ adapterPoints = Null

\* No samples, calculateMetrics not called.
InitMetricsVars(samples) ==
  /\ frameTimes = samples
  /\ sampleMetrics = Null
  /\ filtered = Null

\* A configuration as createEmptyResults makes it, given its iterations.
InitCombineVars(iterations) ==
  /\ iterationResults = iterations
  /\ combinedResult = Null

PendingPromise == [state |-> "pending", error |-> "none"]

\* The collections an adapter is handed: the base workload (setPointsData,
\* or updatePointPositions(basePoints)), or the scratch buffer as animated
\* at a frame's time.
BasePoints == [kind |-> "base", at |-> 0]

AnimatedPoints(now) == [kind |-> "animated", at |-> now]

\* The locals of runMeasuredAnimation(lib, basePoints, {warmupMs, durationMs,
\* signal}) when it has registered the listener and requested the first
\* frame (lines 579-596, 661); startTime is the origin of the clock.  The
\* caller loaded the base workload before (setPointCountForLib).
InitCollectorVars(interval, warmup, duration) ==
  /\ clock = 0
  /\ tickInterval = interval
  /\ lastFrameTime = 0
  /\ isWarmup = TRUE
  /\ maxFrameGap = 0
  /\ throttleWarnings = 0
  /\ resolved = Null
  /\ warmupMs = warmup
  /\ durationMs = duration
  /\ signalAborted = FALSE
  /\ listening = TRUE
  /\ framePending = TRUE
  /\ collectorPromise = PendingPromise
  /\ backendPoints = BasePoints
  /\ testPc = "collector"

Init ==
  /\ InitBenchmark
  /\ InitWorkloadVars(1)
  /\ InitMetricsVars(<<>>)
  /\ InitCombineVars(<<>>)
  /\ InitCollectorVars(0, 0, 0)

\* A settled run promise has its continuation (the await in the click
\* handler) in the microtask queue: it runs before any other task.
MicrotaskPending == \E r \in RunIds : runs[r].pc = "settled"

\* A continuation step of a run, noted when cancellation was asked before it.
Stepped(run) == [run EXCEPT !.steppedAfterCancel = run.cancelReq]

\* The catch clause with the two outcomes exchanged.
CatchStateInverted(msg) == IF msg = CancelledMsg THEN "error" ELSE "cancelled"

\* catch (error) { benchmarkState = ...; throw error; }
CatchState(msg) == IF msg = CancelledMsg THEN "cancelled" ELSE "error"

Rejected(run, msg) == [run EXCEPT !.pc = "settled", !.promise = "rejected", !.error = msg]

\* if (abortController.signal.aborted) throw new Error('Benchmark cancelled')
\* read through the module-level abortController: "TypeError" when it is
\* null, "Benchmark cancelled" when aborted, "none" otherwise.
AbortCheck == IF abortController = 0 THEN TypeErrorMsg
              ELSE IF abortController \in aborted THEN CancelledMsg
              ELSE "none"

\* export const LIBRARY_NAMES
LIBRARY_NAMES ==
  [lib \in {"leaflet", "openlayers", "maplibre", "deckgl"} |->
     CASE lib = "leaflet" -> "Leaflet 2.0"
       [] lib = "openlayers" -> "OpenLayers"
       [] lib = "maplibre" -> "MapLibre GL"
       [] lib = "deckgl" -> "Deck.gl"]

\* The object handed to onProgress (lines 824-832); progress, the number
\* (currentTest / totalTests) * 100, is kept in 1/100 percent.
ProgressReport(test, iteration, currentTest) ==
  [library |-> LIBRARY_NAMES[test.lib], pointCount |-> test.count,
   iteration |-> iteration + 1, totalIterations |-> ITERATIONS,
   testNumber |-> currentTest, totalTests |-> totalTests,
   progress |-> (currentTest * 10000) \div totalTests]

\* The steps of one test in the order of lines 834-869, each named by the
\* call that performs it ("push" is iterations.push(metrics)).
StepsOfSwitchToTab == <<"switchToTab">>

\* The workload handed to the backend only after the settle delay began.
StepsAfterTabLoadLate == <<"hideNonEssentialLayers", "delay(500)", "setPointCountForLib">>

StepsAfterTab == <<"hideNonEssentialLayers", "setPointCountForLib", "delay(500)">>

StepsAfterSettle == <<"runMeasuredAnimation">>

StepsAfterMeasurement == <<"push", "restoreLayers", "updatePointPositions", "delay(200)">>

\* The head of the inner loop up to the first await: currentTest++,
\* onProgress(...), switchToTab(lib) (tab classes toggled, timer set).
BeginTest(run, order, iteration) ==
  [run EXCEPT !.pc = "tab", !.iteration = iteration,
              !.test = Head(order), !.testOrder = Tail(order),
              !.currentTest = run.currentTest + 1,
              !.progress = ProgressReport(Head(order), iteration, run.currentTest + 1),
              !.steps = StepsOfSwitchToTab,
              !.visited[<<Head(order), iteration>>] =
                 run.visited[<<Head(order), iteration>>] + 1]

\* ----------------------------------------------------------------- benchmark.js
\* export function resetBenchmark()
resetBenchmark ==
  /\ benchmarkState' = "idle"
  /\ abortController' = 0
  /\ benchmarkResults' = EmptyObject
  /\ animationBuffers' = {}

\* A cancellation that sticks to every controller, made or not yet made.
cancelBenchmarkSticky == aborted \cup RunIds

\* export function cancelBenchmark(): the new value of aborted.
cancelBenchmark == IF abortController # 0 THEN aborted \cup {abortController}
                   ELSE aborted

\* Every active run learns that cancellation was requested.
MarkCancel(rs) ==
  [r \in RunIds |-> IF rs[r].pc \in ActivePcs THEN [rs[r] EXCEPT !.cancelReq = TRUE]
                    ELSE rs[r]]

\* runBenchmark(onProgress) up to its first await.
runBenchmark(r) ==
  /\ benchmarkState' = "running"
  /\ abortController' = r
  /\ aborted' = aborted
  /\ benchmarkResults' = createEmptyResults
  /\ animationBuffers' = animationBuffers
  /\ \E js \in RandomDraws :
       runs' = [runs EXCEPT ![r] =
                  BeginTest([NewRun EXCEPT !.pc = "tab"], generateTestOrder(js), 0)]

\* ------------------------------------------------------------------- main.js
\* function closeBenchmarkModal()
closeBenchmarkModal ==
  /\ modalActive' = FALSE
  /\ btnDisabled' = FALSE
  /\ resetBenchmark
  /\ benchmarkChart' = FALSE
  /\ resultsDisplay' = resultsDisplay

\* benchmarkBtn click, up to the await of runBenchmark.  A disabled button
\* dispatches no click.  (Stopping the manual animation and the progress
\* section's display touch no state of the benchmark.)
StartClick ==
  /\ UNCHANGED pureVars
  /\ ~MicrotaskPending
  /\ ~btnDisabled
  /\ \E r \in RunIds :
       /\ runs[r].pc = "none"
       /\ \A q \in RunIds : q < r => runs[q].pc # "none"
       /\ btnDisabled' = TRUE
       /\ modalActive' = TRUE
       /\ resultsDisplay' = "none"
       /\ benchmarkChart' = benchmarkChart
       /\ runBenchmark(r)

\* A run whose caller has consumed the settled promise: the locals of the
\* invocation are gone, the outcome of the promise is kept (and whether
\* cancellation was asked while the run was active).
Closed(run) ==
  [NewRun EXCEPT !.pc = "closed", !.promise = run.promise, !.error = run.error,
                 !.cancelReq = run.cancelReq]

\* The rest of the benchmarkBtn click handler, after the run promise settled.
HandlerContinue(r) ==
  /\ UNCHANGED pureVars
  /\ runs[r].pc = "settled"
  /\ runs' = [runs EXCEPT ![r] = Closed(runs[r])]
  /\ IF runs[r].promise = "resolved"
       THEN /\ resultsDisplay' = "block"
            /\ benchmarkChart' = TRUE
            /\ UNCHANGED <<benchmarkState, abortController, aborted,
                           benchmarkResults, animationBuffers,
                           btnDisabled, modalActive>>
       ELSE /\ closeBenchmarkModal
            /\ aborted' = aborted

\* cancelBtn click.  The modal's controls are on screen while it is active.
CancelClick ==
  /\ UNCHANGED pureVars
  /\ ~MicrotaskPending
  /\ modalActive
  /\ aborted' = cancelBenchmark
  /\ runs' = MarkCancel(runs)
  /\ UNCHANGED <<benchmarkState, abortController, benchmarkResults,
                 animationBuffers, uiVars>>

\* closeModalBtn (X) click: cancelBenchmark(); closeBenchmarkModal().
CloseModalClick ==
  /\ UNCHANGED pureVars
  /\ ~MicrotaskPending
  /\ modalActive
  /\ aborted' = cancelBenchmark
  /\ runs' = MarkCancel(runs)
  /\ closeBenchmarkModal

\* closeResultsBtn click; the button is part of the results section.
CloseResultsClick ==
  /\ UNCHANGED pureVars
  /\ ~MicrotaskPending
  /\ modalActive
  /\ resultsDisplay = "block"
  /\ closeBenchmarkModal
  /\ UNCHANGED <<aborted, runs>>

\* Backdrop click: closes only if results are showing.
BackdropClick ==
  /\ UNCHANGED pureVars
  /\ ~MicrotaskPending
  /\ modalActive
  /\ resultsDisplay # "none"
  /\ closeBenchmarkModal
  /\ UNCHANGED <<aborted, runs>>

\* --------------------------------------------------- the run's continuations
\* The 250 ms timer of switchToTab fires: MODULES[lib].getMap() and the
\* resize of the map; then, the await resumed, hideNonEssentialLayers(lib),
\* setPointCountForLib(lib, basePoints) and delay(500).
\*   fault = "callback": the timer callback throws, resolve() is never called
\*   fault = "adapter":  setLayerVisibility or setPointsData throws
TabTimer(r) ==
  /\ UNCHANGED pureVars
  /\ ~MicrotaskPending
  /\ runs[r].pc = "tab"
  /\ \E fault \in {"none", "callback", "adapter"} :
       LET run == Stepped(runs[r]) IN
       CASE fault = "callback" ->
              /\ runs' = [runs EXCEPT ![r] = [run EXCEPT !.pc = "hung", !.faulted = "callback"]]
              /\ UNCHANGED benchmarkState
         [] fault = "adapter" ->
              /\ runs' = [runs EXCEPT ![r] =
                            Rejected([run EXCEPT !.faulted = "adapter"], AdapterFaultMsg)]
              /\ benchmarkState' = CatchState(AdapterFaultMsg)
         [] OTHER ->
              /\ runs' = [runs EXCEPT ![r] =
                            [run EXCEPT !.pc = "settle",
                                        !.steps = run.steps \o StepsAfterTab]]
              /\ UNCHANGED benchmarkState
  /\ UNCHANGED <<abortController, aborted, benchmarkResults, animationBuffers,
                 uiVars>>

\* delay(500) is over: runMeasuredAnimation(lib, basePoints, {..., signal:
\* abortController.signal}) registers the listener and requests a frame.
SettleTimer(r) ==
  /\ UNCHANGED pureVars
  /\ ~MicrotaskPending
  /\ runs[r].pc = "settle"
  /\ LET run == Stepped(runs[r]) IN
     IF abortController = 0
       THEN /\ runs' = [runs EXCEPT ![r] = Rejected(run, TypeErrorMsg)]
            /\ benchmarkState' = CatchState(TypeErrorMsg)
       ELSE /\ runs' = [runs EXCEPT ![r] =
                          [run EXCEPT !.pc = "measure", !.signal = abortController,
                                      !.steps = run.steps \o StepsAfterSettle]]
            /\ UNCHANGED benchmarkState
  /\ UNCHANGED <<abortController, aborted, benchmarkResults, animationBuffers,
                 uiVars>>

\* The push followed at once by the combined reduction.
StoreIterationThenCombine(results, test, metrics) ==
  calculateCombinedStats([results EXCEPT ![test].iterations = Append(@, metrics)])

\* benchmarkResults[lib][count].iterations.push(metrics)
StoreIteration(results, test, metrics) ==
  [results EXCEPT ![test].iterations = Append(@, metrics)]

\* Lines 855-869, after the collector resolved with metrics: store the
\* iteration result, restoreLayers(lib), updatePointPositions(basePoints),
\* delay(200).  adapterThrows: one of the two adapter calls throws.
AfterMeasurement(r, run, metrics, adapterThrows) ==
  IF DOMAIN benchmarkResults = {}
    THEN /\ runs' = [runs EXCEPT ![r] = Rejected(run, TypeErrorMsg)]
         /\ benchmarkState' = CatchState(TypeErrorMsg)
         /\ UNCHANGED benchmarkResults
    ELSE LET pushed == [run EXCEPT !.stored[run.test] = run.stored[run.test] + 1] IN
         /\ benchmarkResults' = StoreIteration(benchmarkResults, run.test, metrics)
         /\ IF adapterThrows
              THEN /\ runs' = [runs EXCEPT ![r] =
                                 Rejected([pushed EXCEPT !.faulted = "adapter"],
                                          AdapterFaultMsg)]
                   /\ benchmarkState' = CatchState(AdapterFaultMsg)
              ELSE /\ runs' = [runs EXCEPT ![r] =
                                 [pushed EXCEPT !.pc = "pause",
                                                !.steps = run.steps \o StepsAfterMeasurement]]
                   /\ UNCHANGED benchmarkState

\* getAnimationBuffer(basePoints), called by updateAnimatedPoints on every
\* frame: the cache afterwards (a buffer is made when the count has none).
getAnimationBuffer(count) == animationBuffers \cup {count}

\* One animation frame: function animate() of runMeasuredAnimation.
\*   over:  whether now - startTime has reached warmupMs + durationMs
\*   fault: "tick" when updatePointPositions(animatedPoints) throws inside
\*          the frame callback (the promise is never settled and no further
\*          frame is requested), "after" when an adapter call of lines 863-866
\*          throws
Tick(r) ==
  /\ UNCHANGED pureVars
  /\ ~MicrotaskPending
  /\ runs[r].pc = "measure"
  /\ LET run == Stepped(runs[r]) IN
     IF run.signal \in aborted
       THEN /\ runs' = [runs EXCEPT ![r] = Rejected(run, CancelledMsg)]
            /\ benchmarkState' = CatchState(CancelledMsg)
            /\ UNCHANGED <<benchmarkResults, animationBuffers>>
       ELSE \E over \in BOOLEAN,
               fault \in {"none", "tick", "after"},
               metrics \in CollectorResults :
              /\ fault = "after" => over
              /\ ~over => metrics = WithDiagnostics(ZeroMetrics, 0, 0)
              /\ animationBuffers' = getAnimationBuffer(run.test.count)
              /\ CASE fault = "tick" ->
                        /\ runs' = [runs EXCEPT ![r] =
                                      [run EXCEPT !.pc = "hung", !.faulted = "tick"]]
                        /\ UNCHANGED <<benchmarkState, benchmarkResults>>
                   [] fault # "tick" /\ ~over ->
                        /\ runs' = [runs EXCEPT ![r] = run]
                        /\ UNCHANGED <<benchmarkState, benchmarkResults>>
                   [] OTHER ->
                        AfterMeasurement(r, run, metrics, fault = "after")
  /\ UNCHANGED <<abortController, aborted, uiVars>>

\* The end of runBenchmark's loops: calculateCombinedStats(benchmarkResults),
\* benchmarkState = 'complete', return benchmarkResults.
Finish(r, run) ==
  IF DOMAIN benchmarkResults = {}
    THEN /\ runs' = [runs EXCEPT ![r] = Rejected(run, TypeErrorMsg)]
         /\ benchmarkState' = CatchState(TypeErrorMsg)
         /\ UNCHANGED benchmarkResults
    ELSE /\ benchmarkResults' = calculateCombinedStats(benchmarkResults)
         /\ benchmarkState' = "complete"
         /\ runs' = [runs EXCEPT ![r] =
                       [run EXCEPT !.pc = "settled", !.promise = "resolved",
                                   !.combinedBy = TRUE]]

\* The abort check at the head of the inner loop, then the next test.
NextTest(r, run, order, iteration) ==
  /\ IF AbortCheck # "none"
       THEN /\ runs' = [runs EXCEPT ![r] = Rejected(run, AbortCheck)]
            /\ benchmarkState' = CatchState(AbortCheck)
       ELSE /\ runs' = [runs EXCEPT ![r] = BeginTest(run, order, iteration)]
            /\ UNCHANGED benchmarkState
  /\ UNCHANGED benchmarkResults

\* delay(200) is over: the loops of runBenchmark advance.
PauseTimer(r) ==
  /\ UNCHANGED pureVars
  /\ ~MicrotaskPending
  /\ runs[r].pc = "pause"
  /\ LET run == Stepped(runs[r]) IN
     IF run.testOrder # <<>>
       THEN NextTest(r, run, run.testOrder, run.iteration)
       ELSE IF run.iteration + 1 < ITERATIONS
         THEN \E js \in RandomDraws :
                NextTest(r, run, generateTestOrder(js), run.iteration + 1)
         ELSE Finish(r, run)
  /\ UNCHANGED <<abortController, aborted, animationBuffers, uiVars>>

Next ==
  \/ StartClick
  \/ CancelClick
  \/ CloseModalClick
  \/ CloseResultsClick
  \/ BackdropClick
  \/ \E r \in RunIds : HandlerContinue(r)
  \/ \E r \in RunIds : TabTimer(r)
  \/ \E r \in RunIds : SettleTimer(r)
  \/ \E r \in RunIds : Tick(r)
  \/ \E r \in RunIds : PauseTimer(r)

Spec == Init /\ [][Next]_vars

\* ================================================= workloads and animation
\* Coordinates are in units of 1e-6 degree, Math.random() in thousandths,
\* angles in tenths of a radian, elapsed time in whole seconds.
MaxPoints == 2
MaxElapsed == 2
PointCounts == 1..MaxPoints
ElapsedTimes == 0..MaxElapsed
BENCHMARK_SEED == 42

\* Values Math.random() returns, in thousandths (0 <= x < 1).
RandomValues == {0, 999}

\* fake-data.js
NYC_CENTER == [lat |-> 40712800, lng |-> -74006000]
SPREAD == 120000

\* Math.random() * (max - min) + min, the draw given
randomInRange(min, max, random) == (random * (max - min)) \div 1000 + min

\* The draws of one getPoints call that fix positions: for each feature the
\* one behind lng and the one behind lat.  (magnitude and category are two
\* more draws per feature; they fix no position and no id.)
PointDraws(count) == [1..count -> [lng : RandomValues, lat : RandomValues]]

\* export function getPoints(count = 1000): the function has one parameter,
\* a second argument is ignored.  Feature i (0-based) has properties.id = i.
getPoints(count, seed, draws) ==
  [type |-> "FeatureCollection",
   features |->
     [i \in 1..count |->
        [id |-> i - 1,
         coordinates |->
           <<NYC_CENTER.lng + randomInRange(-SPREAD, SPREAD, draws[i].lng),
             NYC_CENTER.lat + randomInRange(-SPREAD, SPREAD, draws[i].lat)>>]]]

\* Math.cos and Math.sin in thousandths, of an angle in tenths of a radian
\* (table for 0.0 .. 3.1, continued by cos(a + pi) = -cos(a)).
CosTable ==
  <<1000, 995, 980, 955, 921, 878, 825, 765, 697, 622, 540, 454, 362, 267, 170, 71,
    -29, -129, -227, -323, -416, -505, -589, -666, -737, -801, -857, -904, -942,
    -971, -990, -999>>
SinTable ==
  <<0, 100, 199, 296, 389, 479, 565, 644, 717, 783, 841, 891, 932, 964, 985, 997,
    1000, 992, 974, 946, 909, 863, 808, 746, 675, 598, 516, 427, 335, 239, 141, 42>>
RECURSIVE Cos(_)
Cos(a) == IF a < Len(CosTable) THEN CosTable[a + 1] ELSE -Cos(a - Len(CosTable))
RECURSIVE Sin(_)
Sin(a) == IF a < Len(SinTable) THEN SinTable[a + 1] ELSE -Sin(a - Len(SinTable))

\* A buffer whose collection lost its last feature.
NewBufferTruncated(basePoints) ==
  [baseCoords |-> [i \in DOMAIN basePoints.features |->
                     basePoints.features[i].coordinates],
   animatedPoints |->
     [type |-> "FeatureCollection",
      features |-> SubSeq(basePoints.features, 1, Len(basePoints.features) - 1)],
   coordinatesOf |-> "buffer"]

\* A buffer whose features keep the coordinate arrays of the base features.
NewBufferSharingCoordinates(basePoints) ==
  [baseCoords |-> [i \in DOMAIN basePoints.features |->
                     basePoints.features[i].coordinates],
   animatedPoints |->
     [type |-> "FeatureCollection",
      features |-> [i \in DOMAIN basePoints.features |->
                      [id |-> basePoints.features[i].id,
                       coordinates |-> basePoints.features[i].coordinates]]],
   coordinatesOf |-> "basePoints"]

\* getAnimationBuffer, the branch that makes a buffer: baseCoords copied,
\* animatedPoints with the features' own properties and copied coordinates.
\* coordinatesOf tells whose arrays the features' geometry.coordinates are:
\* new arrays of the buffer ([baseCoords[i][0], baseCoords[i][1]]).
NewBuffer(basePoints) ==
  [baseCoords |-> [i \in DOMAIN basePoints.features |->
                     basePoints.features[i].coordinates],
   animatedPoints |->
     [type |-> "FeatureCollection",
      features |-> [i \in DOMAIN basePoints.features |->
                      [id |-> basePoints.features[i].id,
                       coordinates |-> basePoints.features[i].coordinates]]],
   coordinatesOf |-> "buffer"]

\* function getAnimationBuffer(basePoints): the Map afterwards; the buffer
\* is looked up by basePoints.features.length alone.
getAnimationBufferMap(map, basePoints) ==
  LET count == Len(basePoints.features) IN
  IF count \in DOMAIN map THEN map
  ELSE [c \in DOMAIN map \cup {count} |->
          IF c = count THEN NewBuffer(basePoints) ELSE map[c]]

\* The loop body of updateAnimatedPoints for index i (1-based here, the
\* code's i is i - 1): phase = i * 0.1, speed = 0.5 + (i % 5) * 0.2,
\* radius = 0.002 + (i % 10) * 0.0005.
AnimatedCoordinates(baseCoords, i, elapsed) ==
  LET k == i - 1
      phase == k
      speed == 5 + (k % 5) * 2
      radius == 2000 + (k % 10) * 500
      angle == elapsed * speed + phase
  IN <<baseCoords[i][1] + (Cos(angle) * radius) \div 1000,
       baseCoords[i][2] + (Sin(angle) * radius) \div 1000>>

\* function updateAnimatedPoints(basePoints, elapsed): the Map afterwards,
\* the buffer's coordinates overwritten in place.
updateAnimatedPoints(map, basePoints, elapsed) ==
  LET count == Len(basePoints.features)
      got == getAnimationBufferMap(map, basePoints)
      buffer == got[count]
  IN [got EXCEPT ![count].animatedPoints.features =
        [i \in DOMAIN buffer.animatedPoints.features |->
           [buffer.animatedPoints.features[i] EXCEPT
              !.coordinates = AnimatedCoordinates(buffer.baseCoords, i, elapsed)]]]

\* basePoints after updateAnimatedPoints wrote coords[0] and coords[1] of
\* every feature of the buffer: the writes reach the arrays named by
\* coordinatesOf.
basePointsAfterUpdate(basePoints, buffer) ==
  IF buffer.coordinatesOf = "buffer" THEN basePoints
  ELSE [basePoints EXCEPT !.features =
          [i \in DOMAIN basePoints.features |->
             [basePoints.features[i] EXCEPT
                !.coordinates = buffer.animatedPoints.features[i].coordinates]]]

runVars == <<benchmarkState, abortController, aborted, benchmarkResults,
             animationBuffers, runs, uiVars>>

appVars == <<runVars, orderVars>>

InitWorkload ==
  /\ InitBenchmark
  /\ \E count \in PointCounts : InitWorkloadVars(count)
  /\ InitMetricsVars(<<>>)
  /\ InitCombineVars(<<>>)
  /\ InitCollectorVars(0, 0, 0)

\* runBenchmark, lines 801-805: pointDataCache[count] = getPoints(count,
\* BENCHMARK_SEED) of run r.
GeneratePointData(r) ==
  /\ pointDataCache[r] = Null
  /\ \E draws \in PointDraws(pointCount) :
       pointDataCache' = [pointDataCache EXCEPT
                            ![r] = getPoints(pointCount, BENCHMARK_SEED, draws)]
  /\ generated' = [generated EXCEPT ![r] = pointDataCache'[r]]
  /\ UNCHANGED <<pointCount, bufferMap, lastUpdate, adapterPoints, appVars, layerVars, metricsVars, combineVars, collectorVars>>

\* One frame of run r at elapsed seconds: updateAnimatedPoints(basePoints,
\* elapsed) with basePoints = pointDataCache[count], and the collection it
\* returns handed to the adapter (lines 630-636).
AnimateFrame(r) ==
  /\ pointDataCache[r] # Null
  /\ \E elapsed \in ElapsedTimes :
       /\ bufferMap' = updateAnimatedPoints(bufferMap, pointDataCache[r], elapsed)
       /\ lastUpdate' = [run |-> r, elapsed |-> elapsed,
                         animatedPoints |-> bufferMap'[pointCount].animatedPoints]
  /\ pointDataCache' =
       [pointDataCache EXCEPT
          ![r] = basePointsAfterUpdate(pointDataCache[r], bufferMap'[pointCount])]
  /\ adapterPoints' = [call |-> "animate", run |-> r,
                       points |-> bufferMap'[pointCount].animatedPoints]
  /\ UNCHANGED <<pointCount, generated, appVars, layerVars, metricsVars, combineVars, collectorVars>>

\* resetBenchmark(): animationBuffers.clear().
ClearBuffers ==
  /\ bufferMap # EmptyObject
  /\ bufferMap' = EmptyObject
  /\ UNCHANGED <<pointCount, pointDataCache, lastUpdate, generated, adapterPoints, appVars, layerVars, metricsVars, combineVars, collectorVars>>

\* runBenchmark, line 866, after a test of run r:
\* MODULES[lib].updatePointPositions(basePoints).
StaticReset(r) ==
  /\ adapterPoints # Null
  /\ adapterPoints.call = "animate"
  /\ adapterPoints.run = r
  /\ adapterPoints' = [call |-> "reset", run |-> r,
                       points |-> pointDataCache[r]]
  /\ UNCHANGED <<pointCount, pointDataCache, bufferMap, lastUpdate, generated,
                 appVars, layerVars, metricsVars, combineVars, collectorVars>>

NextWorkload ==
  \/ \E r \in RunIds : GeneratePointData(r)
  \/ \E r \in RunIds : AnimateFrame(r)
  \/ \E r \in RunIds : StaticReset(r)
  \/ ClearBuffers

SpecWorkload == InitWorkload /\ [][NextWorkload]_vars

\* ===================================================== Statistics Reducer
\* Frame times are in 1/100 ms; rates are frames per second.
MaxSamples == 12
MinSamples == 10

\* Frame times the collector can record (1 ms < t < 200 ms): 16 ms, 20 ms.
FrameTimeValues == {1600, 2000}

SampleSets == UNION {[1..n -> FrameTimeValues] : n \in 0..MaxSamples}

\* Math.floor(Math.sqrt(x)) by bisection: the root lies in lo..hi.
RECURSIVE SqrtBetween(_, _, _)
SqrtBetween(x, lo, hi) ==
  IF lo = hi THEN lo
  ELSE LET mid == (lo + hi + 1) \div 2
       IN IF mid * mid <= x THEN SqrtBetween(x, mid, hi)
          ELSE SqrtBetween(x, lo, mid - 1)
Sqrt(x) == SqrtBetween(x, 0, 46340)

\* Lines 526-532: the quartiles of the sorted samples and the two bounds,
\* doubled (q1 - 1.5 * iqr and q3 + 1.5 * iqr are halves of integers).
IQRBounds(samples) ==
  LET sorted == SortNum(samples)
      len == Len(sorted)
      q1 == sorted[Q1Index(len) + 1]
      q3 == sorted[Q3Index(len) + 1]
      iqr == q3 - q1
  IN [lower2 |-> 2 * q1 - 3 * iqr, upper2 |-> 2 * q3 + 3 * iqr]

\* The filter with strict comparisons.
InBoundsStrict(t, bounds) == 2 * t > bounds.lower2 /\ 2 * t < bounds.upper2

\* t >= lowerBound && t <= upperBound
InBounds(t, bounds) == 2 * t >= bounds.lower2 /\ 2 * t <= bounds.upper2

\* frameTimes.filter(t => t >= lowerBound && t <= upperBound)
IQRFilter(samples) ==
  IF samples = <<>> THEN <<>>
  ELSE LET bounds == IQRBounds(samples)
       IN SelectSeq(samples, LAMBDA t : InBounds(t, bounds))

\* Lines 544-571 on the sample list the statistics are taken from.
\*   avgFps          Math.round(1000 / avgFrameTime)
\*   min/maxFps      Math.round of the extreme 1000 / ft
\*   jitter          Math.round(Math.sqrt(variance) * 100) / 100, with
\*                   variance = sum((t - mean)^2) / n = sum((n*t - sum)^2) / n^3
\*   medianFps       Math.round(1000 / medianFrameTime), the two middle
\*                   values averaged for an even length
StatsOf(samples) ==
  LET n == Len(samples)
      sum == SumSeq(samples)
      sorted == SortNum(samples)
      deviations == SumSeq([i \in 1..n |-> (n * samples[i] - sum) * (n * samples[i] - sum)])
      medianFps == IF n % 2 = 0
                     THEN RoundDiv(200000, sorted[n \div 2] + sorted[n \div 2 + 1])
                     ELSE RoundDiv(100000, sorted[n \div 2 + 1])
  IN [avgFps |-> RoundDiv(100000 * n, sum),
      minFps |-> RoundDiv(100000, sorted[n]),
      maxFps |-> RoundDiv(100000, sorted[1]),
      medianFps |-> medianFps,
      avgFrameTime |-> RoundDiv(sum, n),
      jitter |-> (Sqrt((((4 * deviations) \div n) \div n) \div n) + 1) \div 2]

\* The fallback appending the raw samples to the filtered ones.
FallbackAppends(samples, kept) ==
  IF Len(kept) < MinSamples THEN kept \o samples ELSE kept

\* if (filtered.length < 10) filtered = [...frameTimes]
Fallback(samples, kept) ==
  IF Len(kept) < MinSamples THEN samples ELSE kept

\* calculateMetrics taking nine samples for enough.
calculateMetricsFromNine(samples) ==
  IF Len(samples) < MinSamples - 1 THEN ZeroMetrics
  ELSE [StatsOf(samples) EXCEPT !.jitter = 0] @@ [outliersExcluded |-> 0]

\* function calculateMetrics(frameTimes)
calculateMetrics(samples) ==
  IF Len(samples) < MinSamples THEN ZeroMetrics
  ELSE LET kept == IQRFilter(samples)
           stats == StatsOf(Fallback(samples, kept))
       IN [avgFps |-> stats.avgFps, minFps |-> stats.minFps,
           maxFps |-> stats.maxFps, medianFps |-> stats.medianFps,
           avgFrameTime |-> stats.avgFrameTime, jitter |-> stats.jitter,
           outliersExcluded |-> Len(samples) - Len(kept)]

InitMetrics ==
  /\ InitBenchmark
  /\ InitWorkloadVars(1)
  /\ \E samples \in SampleSets : InitMetricsVars(samples)
  /\ InitCombineVars(<<>>)
  /\ InitCollectorVars(0, 0, 0)

\* const metrics = calculateMetrics(frameTimes)
CalculateMetrics ==
  /\ sampleMetrics = Null
  /\ sampleMetrics' = calculateMetrics(frameTimes)
  /\ UNCHANGED <<frameTimes, filtered, appVars, layerVars, workloadVars, combineVars, collectorVars>>

\* The filter of lines 521-536 applied to the raw samples.
FilterOutliers ==
  /\ filtered = Null
  /\ filtered' = [input |-> frameTimes, output |-> IQRFilter(frameTimes)]
  /\ UNCHANGED <<frameTimes, sampleMetrics, appVars, layerVars, workloadVars, combineVars, collectorVars>>

\* The filter applied again, to what it returned.
FilterAgain ==
  /\ filtered # Null
  /\ filtered' = [input |-> filtered.output, output |-> IQRFilter(filtered.output)]
  /\ UNCHANGED <<frameTimes, sampleMetrics, appVars, layerVars, workloadVars, combineVars, collectorVars>>

NextMetrics ==
  \/ CalculateMetrics
  \/ FilterOutliers
  \/ FilterAgain

SpecMetrics == InitMetrics /\ [][NextMetrics]_vars

\* ================================================ cross-iteration reduction
MaxIterationResults == 4

\* Median rates of the per-iteration results under study.
MedianRates == {58, 60, 61}

\* An iteration result as the collector resolves it, with the given median rate.
ResultWithMedian(rate) ==
  WithDiagnostics([SteadyMetrics EXCEPT !.medianFps = rate], 0, 0)

\* What iterations.push can have stored: results of full sample sets and
\* the zero-metric result.
IterationResults ==
  {ResultWithMedian(rate) : rate \in MedianRates} \cup {WithDiagnostics(ZeroMetrics, 0, 0)}

IterationLists ==
  UNION {[1..n -> IterationResults] : n \in 1..MaxIterationResults}

InitCombine ==
  /\ InitBenchmark
  /\ InitWorkloadVars(1)
  /\ InitMetricsVars(<<>>)
  /\ \E iterations \in IterationLists : InitCombineVars(iterations)
  /\ InitCollectorVars(0, 0, 0)

\* The body of calculateCombinedStats for one configuration.
CombineIterations ==
  /\ combinedResult = Null
  /\ combinedResult' = CombinedOf(iterationResults)
  /\ UNCHANGED <<iterationResults, appVars, layerVars, workloadVars, metricsVars, collectorVars>>

NextCombine ==
  \/ CombineIterations

SpecCombine == InitCombine /\ [][NextCombine]_vars

\* ========================================================= Sample Collector
\* runMeasuredAnimation with an un-aborted signal and adapter calls that
\* return; runBenchmark passes warmupMs = WARMUP_MS and durationMs =
\* TEST_DURATION_MS (lines 848-851).
WARMUP_MS == 2000
TEST_DURATION_MS == 10000
THROTTLE_THRESHOLD_MS == 100

\* Milliseconds in the unit of the clock.
Ms(x) == x * 100

\* const startTime = performance.now()
startTime == 0

\* Constant frame intervals under study: 10, 16.67, 50, 100, 150, 199 ms.
TickIntervals == {1000, 1667, 5000, 10000, 15000, 19900}

InitCollector ==
  /\ InitBenchmark
  /\ InitWorkloadVars(1)
  /\ InitMetricsVars(<<>>)
  /\ InitCombineVars(<<>>)
  /\ \E interval \in TickIntervals :
       InitCollectorVars(interval, Ms(WARMUP_MS), Ms(TEST_DURATION_MS))

\* A threshold of 200 ms instead of THROTTLE_THRESHOLD_MS.
ThrottledLate(frameTime) == frameTime > Ms(200)

\* frameTime > THROTTLE_THRESHOLD_MS
Throttled(frameTime) == frameTime > Ms(THROTTLE_THRESHOLD_MS)

\* The sample filter with its two ends included.
PlausibleInclusive(frameTime) == frameTime >= Ms(1) /\ frameTime <= Ms(200)

\* frameTime > 1 && frameTime < 200
Plausible(frameTime) == frameTime > Ms(1) /\ frameTime < Ms(200)

\* The abort check looking at nothing.
SignalNeverSeen == FALSE

\* if (signal.aborted)
SignalSeen == signalAborted

\* function cleanup(): the listener removed, the frame request cancelled.
cleanup ==
  /\ listening' = FALSE
  /\ framePending' = FALSE

\* function animate(), lines 603-658: the frame callback that runs at time
\* now.  adapterThrows: MODULES[lib].updatePointPositions(animatedPoints)
\* throws; the callback ends there, with no frame requested and the promise
\* untouched.
animate(now, adapterThrows) ==
  /\ clock' = now
  /\ IF SignalSeen
       THEN /\ cleanup
            /\ collectorPromise' = [state |-> "rejected", error |-> CancelledMsg]
            /\ UNCHANGED <<lastFrameTime, maxFrameGap, throttleWarnings, isWarmup,
                           frameTimes, resolved, backendPoints>>
       ELSE LET frameTime == now - lastFrameTime
                gap == IF ~isWarmup /\ frameTime > maxFrameGap THEN frameTime
                       ELSE maxFrameGap
                warnings == IF ~isWarmup /\ Throttled(frameTime) THEN throttleWarnings + 1
                            ELSE throttleWarnings
                warmup == isWarmup /\ ~((now - startTime) >= warmupMs)
                samples == IF ~warmup /\ Plausible(frameTime)
                             THEN Append(frameTimes, frameTime)
                             ELSE frameTimes
            IN /\ lastFrameTime' = now
               /\ maxFrameGap' = gap
               /\ throttleWarnings' = warnings
               /\ isWarmup' = warmup
               /\ IF adapterThrows
                    THEN /\ framePending' = FALSE
                         /\ UNCHANGED <<frameTimes, resolved, listening,
                                        collectorPromise, backendPoints>>
                    ELSE /\ backendPoints' = AnimatedPoints(now)
                         /\ frameTimes' = samples
                         /\ IF (now - startTime) < warmupMs + durationMs
                              THEN /\ framePending' = TRUE
                                   /\ UNCHANGED <<resolved, listening, collectorPromise>>
                              ELSE /\ cleanup
                                   /\ resolved' =
                                        WithDiagnostics(calculateMetrics(samples),
                                                        RoundDiv(gap, 100), warnings)
                                   /\ collectorPromise' =
                                        [state |-> "resolved", error |-> "none"]

\* A frame callback of a collector whose frames arrive at the constant
\* interval tickInterval, its signal never aborted, its adapter returning.
AnimateTick ==
  /\ framePending
  /\ animate(clock + tickInterval, FALSE)
  /\ UNCHANGED <<tickInterval, warmupMs, durationMs, signalAborted, testPc,
                 sampleMetrics, filtered, appVars, layerVars, workloadVars, combineVars>>

NextCollector ==
  \/ AnimateTick

SpecCollector == InitCollector /\ [][NextCollector]_vars

\* ------------------------------------------------ the collector within a test
\* runMeasuredAnimation with frames at varying intervals, a signal that may
\* be aborted and an adapter that may throw, followed by the caller's
\* continuation (lines 855-866, or the catch clause).  The two windows are
\* parameters of the function; they are kept short here, in milliseconds.
MeasuredWarmupMs == 200
MeasuredDurationMs == 1000

\* The intervals at which a frame may arrive: 1, 96, 104 and 200 ms.
FrameGaps == {100, 9600, 10400, 20000}

\* At most this many frames arrive at the interval of 1 ms; the other
\* intervals being multiples of 4 ms, the clock tells how many did.
MaxNoiseFrames == 1

\* The backend the test is run on.
MeasuredLibrary == "deckgl"

NoiseFrames == (clock % Ms(4)) \div Ms(1)

InitTest ==
  /\ InitPage
  /\ InitLayerVarsUnderTest(MeasuredLibrary)
  /\ InitWorkloadVars(1)
  /\ InitMetricsVars(<<>>)
  /\ InitCombineVars(<<>>)
  /\ InitCollectorVars(0, Ms(MeasuredWarmupMs), Ms(MeasuredDurationMs))

\* The requested frame fires.
Frame ==
  /\ framePending
  /\ \E interval \in FrameGaps, adapterThrows \in BOOLEAN :
       /\ interval = Ms(1) => NoiseFrames < MaxNoiseFrames
       /\ animate(clock + interval, adapterThrows)
  /\ UNCHANGED <<tickInterval, warmupMs, durationMs, signalAborted, testPc,
                 sampleMetrics, filtered, appVars, layerVars, workloadVars, combineVars>>

\* abortController.abort() (cancelBenchmark) while the collector runs.
AbortSignal ==
  /\ ~signalAborted
  /\ collectorPromise.state = "pending"
  /\ signalAborted' = TRUE
  /\ UNCHANGED <<clock, tickInterval, lastFrameTime, isWarmup, maxFrameGap,
                 throttleWarnings, resolved, warmupMs, durationMs, listening,
                 framePending, collectorPromise, backendPoints, testPc,
                 appVars, layerVars, workloadVars, metricsVars, combineVars>>

\* The caller resumes from its await: with metrics, iterations.push(metrics),
\* restoreLayers(lib) and updatePointPositions(basePoints) (lines 860-866);
\* with the rejection, the catch clause (lines 879-882), which sets the
\* state and rethrows.
AfterCollector ==
  /\ testPc = "collector"
  /\ collectorPromise.state # "pending"
  /\ IF collectorPromise.state = "resolved"
       THEN /\ iterationResults' = Append(iterationResults, resolved)
            /\ layerVisibility' = [layerVisibility EXCEPT ![underTest] = restoreLayers(@)]
            /\ underTest' = "none"
            /\ backendPoints' = BasePoints
            /\ testPc' = "stored"
       ELSE /\ testPc' = "caught"
            /\ UNCHANGED <<iterationResults, layerVisibility, underTest, backendPoints>>
  /\ UNCHANGED <<clock, tickInterval, lastFrameTime, isWarmup, maxFrameGap,
                 throttleWarnings, resolved, warmupMs, durationMs, signalAborted,
                 listening, framePending, collectorPromise, combinedResult,
                 layerState, preTestVisibility, appVars, workloadVars, metricsVars>>

NextOfTest ==
  \/ Frame
  \/ AbortSignal
  \/ AfterCollector

SpecTest == InitTest /\ [][NextOfTest]_vars

\* Requested frames do fire, and a settled promise resumes its awaiter.
SpecTestFair == SpecTest /\ WF_vars(Frame) /\ WF_vars(AfterCollector)

\* ------------------------------------------ reduction of measured iterations
\* The iteration results of one configuration are computed by
\* calculateMetrics from recorded samples, stored by iterations.push and
\* reduced by calculateCombinedStats.
MaxStoredResults == 3

\* The sample lists under study: MinSamples - 1 to MaxSamples frame times,
\* the slow frames (if any) last.
RecordedSampleLists ==
  LET fast == CHOOSE t \in FrameTimeValues : \A u \in FrameTimeValues : t <= u
      slow == CHOOSE t \in FrameTimeValues : \A u \in FrameTimeValues : t >= u
  IN {[i \in 1..n |-> IF i <= n - m THEN fast ELSE slow] :
        n \in (MinSamples - 1)..MaxSamples, m \in 0..MaxSamples} 

InitReduce ==
  /\ InitBenchmark
  /\ InitWorkloadVars(1)
  /\ InitMetricsVars(<<>>)
  /\ InitCombineVars(<<>>)
  /\ InitCollectorVars(0, 0, 0)

\* A test ends: resolve({...metrics, maxFrameGap, throttleWarnings}) with
\* metrics = calculateMetrics(frameTimes), then iterations.push(metrics).
StoreIterationResult ==
  /\ combinedResult = Null
  /\ Len(iterationResults) < MaxStoredResults
  /\ \E samples \in RecordedSampleLists :
       /\ frameTimes' = samples
       /\ sampleMetrics' = calculateMetrics(samples)
       /\ iterationResults' =
            Append(iterationResults, WithDiagnostics(sampleMetrics', 0, 0))
  /\ UNCHANGED <<combinedResult, filtered, appVars, layerVars, workloadVars,
                 collectorVars>>

\* calculateCombinedStats for the configuration, which it skips while no
\* iteration is stored.
CombineStored ==
  /\ Len(iterationResults) > 0
  /\ CombineIterations

NextReduce ==
  \/ StoreIterationResult
  \/ CombineStored

SpecReduce == InitReduce /\ [][NextReduce]_vars

\* ============================================================ test orders
\* generateTestOrder over the four libraries of the source and one point
\* count, called once per iteration (runBenchmark, lines 812-814).
SourceLibraries == <<"leaflet", "openlayers", "maplibre", "deckgl">>

\* tests.push({lib, count}) in the nested loops, before the shuffle.
SourceTests ==
  [k \in 1..(Len(SourceLibraries) * Len(POINT_COUNTS)) |->
     [lib |-> SourceLibraries[((k - 1) \div Len(POINT_COUNTS)) + 1],
      count |-> POINT_COUNTS[((k - 1) % Len(POINT_COUNTS)) + 1]]]

\* The draws of Math.floor(Math.random() * (i + 1)) for a list of n tests.
DrawsFor(n) == {js \in [2..n -> 1..n] : \A i \in 2..n : js[i] <= i}

\* const testOrder = generateTestOrder() at the head of an iteration.
DrawTestOrder ==
  /\ Len(testOrders) < ITERATIONS
  /\ \E js \in DrawsFor(Len(SourceTests)) :
       testOrders' = Append(testOrders, FisherYates(SourceTests, Len(SourceTests), js))
  /\ UNCHANGED <<runVars, layerVars, workloadVars, metricsVars, combineVars,
                 collectorVars>>

NextOrder ==
  \/ DrawTestOrder

SpecOrder == Init /\ [][NextOrder]_vars

\* ==================================================== layers around a test
\* The change handler of a layer checkbox (setupLayerControls): the box of
\* layerId goes to the other state.  The controls are disabled while a
\* benchmark runs.
ToggleLayer(layerId) ==
  /\ underTest = "none"
  /\ LET visible == ~layerState[layerId]
         shown(visibility) ==
           LET set == setLayerVisibility(visibility, layerId, visible)
           IN IF layerId = "points" /\ visible
                THEN setLayerVisibility(set, "cluster", FALSE)
                ELSE set
     IN /\ layerState' =
             [layer \in LayerIds |->
                IF layer = layerId THEN visible
                ELSE IF layer = "points" /\ layerId = "cluster" /\ visible THEN FALSE
                ELSE IF layer = "cluster" /\ layerId = "points" /\ visible THEN FALSE
                ELSE layerState[layer]]
        /\ layerVisibility' = [lib \in DOMAIN layerVisibility |->
                                 shown(layerVisibility[lib])]
  /\ UNCHANGED <<underTest, preTestVisibility, appVars, workloadVars, metricsVars,
                 combineVars, collectorVars>>

\* runBenchmark, line 838: a test of backend lib hides the layers.
HideLayers(lib) ==
  /\ underTest = "none"
  /\ underTest' = lib
  /\ preTestVisibility' = layerVisibility[lib]
  /\ layerVisibility' = [layerVisibility EXCEPT ![lib] = hideNonEssentialLayers(@)]
  /\ UNCHANGED <<layerState, appVars, workloadVars, metricsVars, combineVars,
                 collectorVars>>

\* runBenchmark, line 863: the test restores the layers.
RestoreLayers ==
  /\ underTest # "none"
  /\ layerVisibility' = [layerVisibility EXCEPT ![underTest] = restoreLayers(@)]
  /\ underTest' = "none"
  /\ UNCHANGED <<layerState, preTestVisibility, appVars, workloadVars, metricsVars,
                 combineVars, collectorVars>>

NextLayers ==
  \/ \E layerId \in LayerIds : ToggleLayer(layerId)
  \/ \E lib \in Range(LIBRARIES) : HideLayers(lib)
  \/ RestoreLayers

SpecLayers == Init /\ [][NextLayers]_vars

\* ===================================================================== claims
TerminalStates == {"complete", "cancelled", "error"}

AllTriples == Configs \X IterationIndexes

C2_NoTestAfterCancel ==
  [][\A r \in RunIds :
       runs[r].cancelReq => runs'[r].currentTest <= runs[r].currentTest]_vars

\* C3: the first continuation a run executes after cancelBenchmark() was
\* called rejects the run promise with the cancellation error (runs in which
\* an adapter call threw are left aside).
C3_RejectsWithinOneTick ==
  \A r \in RunIds :
    (runs[r].steppedAfterCancel /\ runs[r].faulted = "none") =>
      /\ runs[r].promise = "rejected"
      /\ runs[r].error = CancelledMsg

\* C4: the run state never goes from idle directly to a terminal state, and
\* a terminal state is left only towards idle (resetBenchmark) or running
\* (runBenchmark); steps in which an adapter call throws are left aside.
C4_OneDirectional ==
  [][(\A r \in RunIds : runs'[r].faulted = runs[r].faulted) =>
       /\ benchmarkState = "idle" => benchmarkState' \in {"idle", "running"}
       /\ (benchmarkState \in TerminalStates /\ benchmarkState' # benchmarkState)
            => benchmarkState' \in {"idle", "running"}]_vars

\* C5: at most one measurement loop is collecting at any time.
C5_OneMeasurementLoop ==
  Cardinality({r \in RunIds : runs[r].pc = "measure" /\ runs[r].signal \notin aborted}) <= 1

\* C6: a run that resolves leaves state complete, one that rejects with the
\* cancellation error leaves cancelled, one that rejects otherwise leaves
\* error; and a run in which cancellation was requested and no adapter call
\* threw does not end with an error other than the cancellation error.
C6_OutcomeTaggedByCause ==
  \A r \in RunIds :
    /\ runs[r].pc = "settled" =>
         benchmarkState = (IF runs[r].promise = "resolved" THEN "complete"
                           ELSE IF runs[r].error = CancelledMsg THEN "cancelled"
                           ELSE "error")
    /\ (runs[r].cancelReq /\ runs[r].faulted = "none" /\ runs[r].promise = "rejected")
         => runs[r].error = CancelledMsg

\* C7: when updatePointPositions throws inside a measurement tick, the run
\* promise rejects with that exception.
C7_TickFaultRejects ==
  \A r \in RunIds :
    runs[r].faulted = "tick" =>
      /\ runs[r].promise = "rejected"
      /\ runs[r].error = AdapterFaultMsg

\* C8: whenever the state is complete, every configuration has a non-null
\* Combined Result.
C8_CompleteHasCombined ==
  benchmarkState = "complete" =>
    /\ DOMAIN benchmarkResults = Configs
    /\ \A c \in Configs : benchmarkResults[c].combined # Null

\* Some Combined Result of the store changes in this step.
CombinedChanges ==
  \E c \in (DOMAIN benchmarkResults) \cap (DOMAIN benchmarkResults') :
    benchmarkResults'[c].combined # benchmarkResults[c].combined

C10_CancelledExposesNothing ==
  benchmarkState = "cancelled" =>
    \A c \in DOMAIN benchmarkResults :
      /\ benchmarkResults[c].iterations = <<>>
      /\ benchmarkResults[c].combined = Null

\* C10 (amended): when a run has left state cancelled, its promise rejected
\* with the cancellation error, so it delivered no Results Store, and that
\* run computed no Combined Result; the iteration results stored before the
\* cancellation stay in the store.
C10_CancelledDeliversNothing ==
  \A r \in RunIds :
    (runs[r].pc = "settled" /\ benchmarkState = "cancelled") =>
      /\ runs[r].promise = "rejected"
      /\ runs[r].error = CancelledMsg
      /\ ~runs[r].combinedBy

\* A run has just ended in state cancelled with iteration results stored.
C10_CancelledWithPartialResults ==
  /\ benchmarkState = "cancelled"
  /\ \E r \in RunIds : runs[r].pc = "settled" /\ runs[r].error = CancelledMsg
  /\ \E c \in DOMAIN benchmarkResults : Len(benchmarkResults[c].iterations) > 0

\* -------------------------------------------------------------------- C11
\* A step that is a call of runBenchmark(): an invocation comes into being.
StartsRun == \E r \in RunIds : runs[r].pc = "none" /\ runs'[r].pc # "none"

\* What resetBenchmark() leaves: state idle, store {}, no scratch buffer.
ResetState ==
  /\ benchmarkState = "idle"
  /\ benchmarkResults = EmptyObject
  /\ animationBuffers = {}

\* C11: after resetBenchmark() the state is idle, the Results Store and the
\* scratch-buffer cache are empty, and all three stay so until the next
\* runBenchmark() call, also when a cancelled run is still unwinding.  (The
\* state is idle only between a reset and the next runBenchmark() call.)
C11_ResetHoldsUntilNextRun ==
  /\ [](benchmarkState = "idle" => ResetState)
  /\ [][(benchmarkState = "idle" /\ ~StartsRun) => ResetState']_vars

\* -------------------------------------------------------------------- C12
\* C12: immediately after a runBenchmark() call begins, every configuration
\* has zero iteration results and a null combined result, whatever earlier
\* runs did.
C12_RunStartsFromFreshStore ==
  [][StartsRun =>
       /\ DOMAIN benchmarkResults' = Configs
       /\ \A c \in Configs :
            /\ benchmarkResults'[c].iterations = <<>>
            /\ benchmarkResults'[c].combined = Null]_vars

\* The second run has just begun on a fresh store while the first run, which
\* had pushed an iteration result, is still unwinding.
C12_SecondRunBegunAfterStoredResults ==
  /\ runs[2].pc = "tab" /\ runs[2].currentTest = 1 /\ runs[2].iteration = 0
  /\ \E c \in Configs : runs[1].stored[c] > 0
  /\ \A c \in Configs : benchmarkResults[c].iterations = <<>>

\* -------------------------------------------------------------------- C13
\* C13: cancelBenchmark() called while the state is idle, complete, cancelled
\* or error changes neither the run state nor the Results Store, and a run
\* started afterwards is not cancelled by it: the controller of a new run is
\* not aborted, and a run rejects with 'Benchmark cancelled' only if
\* cancellation was asked while it was active.
C13_CancelWithoutRunIsNoOp ==
  /\ [][(CancelClick /\ benchmarkState # "running") =>
          UNCHANGED <<benchmarkState, benchmarkResults>>]_vars
  /\ [][\A r \in RunIds : (runs[r].pc = "none" /\ runs'[r].pc # "none") =>
          (abortController' = r /\ r \notin aborted')]_vars
  /\ [](\A r \in RunIds : runs[r].error = CancelledMsg => runs[r].cancelReq)

\* The first run completed and cancelBenchmark() was called afterwards (its
\* controller is aborted though no cancellation was asked while it was
\* active); the second run has since stored an iteration result.
C13_RunAfterLateCancelMeasures ==
  /\ runs[1].pc = "closed" /\ runs[1].promise = "resolved"
  /\ ~runs[1].cancelReq /\ 1 \in aborted
  /\ 2 \notin aborted
  /\ \E c \in Configs : runs[2].stored[c] > 0


\* -------------------------------------------------------------------- C14
\* C14: two getPoints(count, BENCHMARK_SEED) calls, in particular those of
\* two different runs, yield workloads with identical entity positions.
C14_SameWorkloadInEveryRun ==
  \A r, q \in RunIds :
    (pointDataCache[r] # Null /\ pointDataCache[q] # Null) =>
      \A i \in 1..pointCount :
        pointDataCache[r].features[i].coordinates =
          pointDataCache[q].features[i].coordinates

\* -------------------------------------------------------------------- C15
\* C15: the collection updateAnimatedPoints returns has as many entities as
\* the base workload and the same identity at every index, for every
\* workload and elapsed time (only coordinates change).
C15_AnimationKeepsIdentity ==
  lastUpdate # Null =>
    LET base == pointDataCache[lastUpdate.run].features
        animated == lastUpdate.animatedPoints.features
    IN /\ Len(animated) = Len(base)
       /\ \A i \in DOMAIN base : animated[i].id = base[i].id

\* A frame at a later time of the largest workload moved every entity, on a
\* buffer that another run's workload had made.
C15_AnimatedOnSharedBuffer ==
  /\ lastUpdate # Null
  /\ pointCount = MaxPoints
  /\ lastUpdate.elapsed > 0
  /\ pointCount \in DOMAIN bufferMap
  /\ LET base == pointDataCache[lastUpdate.run].features
         animated == lastUpdate.animatedPoints.features
     IN /\ \A i \in DOMAIN base : animated[i].coordinates # base[i].coordinates
        /\ \E i \in DOMAIN base :
             bufferMap[pointCount].baseCoords[i] # base[i].coordinates


\* -------------------------------------------------------------------- C16
\* C16: for a sample set of at least 10 samples of which the IQR filter
\* would keep fewer than 10, calculateMetrics takes mean, min, max, median
\* and jitter from the full unfiltered set, every raw sample counted once,
\* and does not return the zero-metric result.
C16_FallbackUsesFullSet ==
  (/\ sampleMetrics # Null
   /\ Len(frameTimes) >= 10
   /\ Len(IQRFilter(frameTimes)) < 10) =>
    LET n == Len(frameTimes)
        sorted == SortNum(frameTimes)
    IN /\ sampleMetrics.avgFps = RoundDiv(100000 * n, SumSeq(frameTimes))
       /\ sampleMetrics.avgFrameTime = RoundDiv(SumSeq(frameTimes), n)
       /\ sampleMetrics.minFps = RoundDiv(100000, sorted[n])
       /\ sampleMetrics.maxFps = RoundDiv(100000, sorted[1])
       /\ sampleMetrics.medianFps = StatsOf(frameTimes).medianFps
       /\ sampleMetrics.jitter = StatsOf(frameTimes).jitter
       /\ sampleMetrics.avgFps > 0

\* calculateMetrics has run on ten or more samples that the filter would cut
\* below ten, and the samples are not all equal.
C16_FallbackTaken ==
  /\ sampleMetrics # Null
  /\ Len(frameTimes) >= 10
  /\ Len(IQRFilter(frameTimes)) < 10
  /\ sampleMetrics.minFps < sampleMetrics.maxFps

\* -------------------------------------------------------------------- C17
\* The sample sets with fewer than 10 samples, the empty one included.
ShortSampleSets == UNION {[1..n -> FrameTimeValues] : n \in 0..(MinSamples - 1)}

\* calculateMetrics returns the zero-metric result for each of them, the
\* result the collector resolves with when it recorded too few samples.
ShortSetsGiveZeroMetrics ==
  \A s \in ShortSampleSets :
    LET m == calculateMetrics(s)
    IN /\ m.avgFps = 0 /\ m.minFps = 0 /\ m.maxFps = 0
       /\ m.avgFrameTime = 0 /\ m.jitter = 0 /\ m.outliersExcluded = 0
       /\ WithDiagnostics(m, 0, 0) \in CollectorResults

\* Run r pushes a zero-metric iteration result in this step.
PushesZeroMetrics(r) ==
  LET test == runs[r].test IN
  /\ runs[r].pc = "measure"
  /\ runs'[r].stored[test] = runs[r].stored[test] + 1
  /\ benchmarkResults' # EmptyObject
  /\ Len(benchmarkResults'[test].iterations) > 0
  /\ benchmarkResults'[test].iterations[Len(benchmarkResults'[test].iterations)].avgFps = 0

\* C17: for every sample set with fewer than 10 samples calculateMetrics
\* returns the zero-metric result (rates, frame time, jitter and outlier
\* count 0) and raises no error: the run stores it and goes on (to the
\* pause before the next test) unless an adapter call throws.
C17_TooFewSamplesGiveZeroMetrics ==
  /\ [](ShortSetsGiveZeroMetrics)
  /\ [][\A r \in RunIds :
          (PushesZeroMetrics(r) /\ runs'[r].faulted = runs[r].faulted) =>
            (runs'[r].pc = "pause" /\ runs'[r].promise = "pending")]_vars

\* The only run stored a zero-metric result for its first test and has
\* begun its second test.
C17_NextTestAfterZeroMetrics ==
  /\ runs[2].pc = "none"
  /\ runs[1].pc = "tab" /\ runs[1].currentTest = 2
  /\ \E c \in Configs :
       /\ runs[1].stored[c] = 1
       /\ benchmarkResults[c].iterations = <<WithDiagnostics(calculateMetrics(<<>>), 0, 0)>>

\* -------------------------------------------------------------------- C18
\* The sample has no value outside the IQR bounds of its own set.
HasNoOutliers(samples) ==
  \/ samples = <<>>
  \/ LET sorted == SortNum(samples)
         q1 == sorted[(Len(sorted) \div 4) + 1]
         q3 == sorted[((3 * Len(sorted)) \div 4) + 1]
     IN \A i \in DOMAIN samples :
          /\ 2 * samples[i] >= 2 * q1 - 3 * (q3 - q1)
          /\ 2 * samples[i] <= 2 * q3 + 3 * (q3 - q1)

\* C18: the IQR filter applied to a sample set without values outside its
\* own IQR bounds returns the set unchanged (same samples, same order, no
\* outlier excluded); filtering again the output of such a filtering
\* changes nothing.
C18_FilterFixesCleanSets ==
  (filtered # Null /\ HasNoOutliers(filtered.input)) =>
    filtered.output = filtered.input

\* The filter removed outliers from the raw samples, was applied again to
\* its own output and returned it as it was.
C18_FilteredTwice ==
  /\ filtered # Null
  /\ Len(filtered.input) < Len(frameTimes)
  /\ filtered.input = IQRFilter(frameTimes)
  /\ filtered.input # <<>>
  /\ filtered.output = filtered.input


\* -------------------------------------------------------------------- C19
\* The median rate of an iteration result (0 for the zero-metric result).
MedianRateOf(result) == IF result.medianFps = Undefined THEN 0 ELSE result.medianFps

\* C19: the combined median rate is the median of the per-iteration median
\* rates (the middle value for an odd number N of results), the combined
\* variability their maximum minus their minimum for N < 4 and Q3 - Q1 for
\* N >= 4; medians [58, 61, 60] give median 60 and variability 3.
C19_CombinedMedianAndVariability ==
  combinedResult # Null =>
    LET n == Len(iterationResults)
        rates == [k \in 1..n |-> MedianRateOf(iterationResults[k])]
        sorted == SortNum(rates)
        m == combinedResult.medianFps
    IN /\ \E k \in 1..n : rates[k] = m
       /\ Cardinality({k \in 1..n : rates[k] < m}) <= n \div 2
       /\ Cardinality({k \in 1..n : rates[k] > m}) <= n \div 2
       /\ n < 4 => combinedResult.fpsIqr = MaxSeq(rates) - MinSeq(rates)
       /\ n >= 4 => combinedResult.fpsIqr =
                      sorted[((3 * n) \div 4) + 1] - sorted[(n \div 4) + 1]
       /\ rates = <<58, 61, 60>> =>
            (combinedResult.medianFps = 60 /\ combinedResult.fpsIqr = 3)

\* The three results with median rates 58, 61, 60 have been combined.
C19_ExampleCombined ==
  /\ combinedResult # Null
  /\ Len(iterationResults) = 3
  /\ [k \in 1..3 |-> iterationResults[k].medianFps] = <<58, 61, 60>>


\* -------------------------------------------------------------------- C20
\* The result of a measurement at a constant interval, the throttle
\* warnings apart.
SteadyResult ==
  /\ resolved.avgFps = RoundDiv(100000, tickInterval)
  /\ resolved.jitter = 0
  /\ resolved.outliersExcluded = 0
  /\ resolved.minFps = resolved.avgFps
  /\ resolved.maxFps = resolved.avgFps
  /\ resolved.medianFps = resolved.avgFps

\* C20 as stated: with every tick at the same interval d, 1 < d < 200 ms,
\* the result has mean rate round(1000/d), jitter 0, no excluded outlier,
\* no throttle warning, and min = max = median rate.
C20_ConstantIntervalNoWarnings ==
  resolved # Null => (SteadyResult /\ resolved.throttleWarnings = 0)

\* C20, amended: as above, with no throttle warning when d is at most the
\* threshold of 100 ms, and one warning per frame after the one that ended
\* the warmup when d is above it.
C20_ConstantIntervalMetrics ==
  resolved # Null =>
    /\ SteadyResult
    /\ tickInterval <= 10000 => resolved.throttleWarnings = 0
    /\ tickInterval > 10000 => resolved.throttleWarnings = Len(frameTimes) - 1

\* The measurement at 16.67 ms over 2000 ms + 10000 ms has resolved with a
\* mean rate of 60.
C20_SixtyPerSecondMeasured ==
  /\ resolved # Null
  /\ tickInterval = 1667
  /\ clock >= 1200000
  /\ resolved.avgFps = 60
  /\ Len(frameTimes) > 500

\* -------------------------------------------------------------------- C21
\* The tests a run has completed: the iteration results it has pushed.
TestsCompleted(run) ==
  Cardinality({ck \in Configs \X (1..ITERATIONS) : ck[2] <= run.stored[ck[1]]})

\* A step in which run r calls onProgress.
ReportsProgress(r) ==
  /\ runs'[r].progress # Null
  /\ runs'[r].progress # runs[r].progress

\* C21: onProgress is invoked exactly once per test, after that test has
\* completed, with testNumber the number of tests completed so far and
\* progress = testNumber / totalTests * 100; so 100 percent is reported only
\* when all tests of the run have completed.
C21_ProgressAfterCompletedTest ==
  [][\A r \in RunIds :
       /\ ReportsProgress(r) <=>
            (runs'[r].pc \in ActivePcs /\ runs'[r].currentTest = runs[r].currentTest + 1)
       /\ ReportsProgress(r) =>
            LET report == runs'[r].progress IN
            /\ report.testNumber = TestsCompleted(runs'[r])
            /\ report.progress = (report.testNumber * 10000) \div report.totalTests
            /\ report.progress = 10000 => TestsCompleted(runs'[r]) = totalTests]_vars

\* -------------------------------------------------------------------- C22
\* Whether the run has stored the result of configuration c in its current
\* iteration.
DoneInIteration(run, c) ==
  /\ c \notin Range(run.testOrder)
  /\ c # run.test \/ run.pc = "pause"

\* The iteration results configuration c holds in the Results Store.
ResultsHeld(c) ==
  IF c \in DOMAIN benchmarkResults THEN Len(benchmarkResults[c].iterations) ELSE 0

\* A run in progress that nobody asked to cancel.
Undisturbed(run) == run.pc \in ActivePcs /\ ~run.cancelReq

\* C22: within a run the tests are executed one after the other and the
\* iterations in increasing order; a configuration holds k results before
\* its test of iteration k and k + 1 after it, so that after iteration k
\* every configuration holds exactly k + 1 iteration results.  (Stated of
\* the runs that no cancellation was asked of.)
C22_IterationsInOrder ==
  /\ [](\A r \in RunIds : Undisturbed(runs[r]) =>
          \A c \in Configs :
            ResultsHeld(c) = runs[r].iteration +
                               (IF DoneInIteration(runs[r], c) THEN 1 ELSE 0))
  /\ [][\A r \in RunIds :
          (Undisturbed(runs[r]) /\ Undisturbed(runs'[r])) =>
            \/ runs'[r].iteration = runs[r].iteration
            \/ /\ runs'[r].iteration = runs[r].iteration + 1
               /\ \A c \in Configs : ResultsHeld(c) = runs[r].iteration + 1]_vars

\* -------------------------------------------------------------------- C28
\* The order of the steps of a test as the specification gives it.
TestStepOrder ==
  <<"switchToTab", "hideNonEssentialLayers", "setPointCountForLib", "delay(500)",
    "runMeasuredAnimation", "push", "restoreLayers", "updatePointPositions",
    "delay(200)">>

IsPrefix(s, t) == Len(s) <= Len(t) /\ SubSeq(t, 1, Len(s)) = s

\* C28: in every test of a run the steps are taken in the order: activate the
\* tab, hide the non-point layers, load the workload, settle delay, run the
\* collector, store the result, restore the layers, reset the backend to the
\* static workload, pause; none is skipped, and the collector is started only
\* after the workload of its configuration was loaded into its backend.
C28_StepsOfATestInOrder ==
  \A r \in RunIds :
    /\ IsPrefix(runs[r].steps, TestStepOrder)
    /\ runs[r].pc = "tab" => runs[r].steps = SubSeq(TestStepOrder, 1, 1)
    /\ runs[r].pc = "settle" => runs[r].steps = SubSeq(TestStepOrder, 1, 4)
    /\ runs[r].pc = "measure" => runs[r].steps = SubSeq(TestStepOrder, 1, 5)
    /\ runs[r].pc = "pause" => runs[r].steps = TestStepOrder
    /\ \A i \in DOMAIN runs[r].steps :
         runs[r].steps[i] = "runMeasuredAnimation" =>
           \E j \in 1..(i - 1) : runs[r].steps[j] = "setPointCountForLib"

\* A run has taken all the steps of a test of its second iteration.
C28_TestOfSecondIterationDone ==
  \E r \in RunIds :
    /\ runs[r].pc = "pause"
    /\ runs[r].iteration = 1
    /\ runs[r].steps = TestStepOrder
    /\ runs[r].stored[runs[r].test] = 2

\* ----------------------------------------------------------- C23 ... C27
\* A step in which a frame callback runs past its abort check: the callback
\* reads the clock (now is clock', the interval is clock' - lastFrameTime).
FrameMeasured == lastFrameTime' # lastFrameTime

\* C23: every sample that enters the statistics was recorded on a frame
\* whose elapsed time since the collector's start is at least warmupMs and
\* whose interval is strictly between 1 ms and 200 ms; the metrics are
\* computed from exactly these samples.
C23_SamplesFromMeasurementPhase ==
  [][/\ frameTimes' # frameTimes =>
          /\ FrameMeasured
          /\ frameTimes' = Append(frameTimes, clock' - lastFrameTime)
          /\ clock' - startTime >= warmupMs
          /\ clock' - lastFrameTime > Ms(1)
          /\ clock' - lastFrameTime < Ms(200)
     /\ (resolved = Null /\ resolved' # Null) =>
          resolved' = WithDiagnostics(calculateMetrics(frameTimes'),
                                      resolved'.maxFrameGap,
                                      resolved'.throttleWarnings)]_vars

\* The collector has resolved with non-zero metrics after a frame at 1 ms and
\* a frame at 200 ms in the measurement phase, neither of them a sample.
C23_ResolvedDespiteNoise ==
  /\ resolved # Null
  /\ resolved.avgFps > 0
  /\ NoiseFrames = 1
  /\ maxFrameGap = Ms(200)
  /\ \A i \in DOMAIN frameTimes : frameTimes[i] \in {9600, 10400}

\* C24: the intervals of the warmup phase give no sample but feed the
\* throttle diagnostics: a frame within the first warmupMs milliseconds whose
\* interval exceeds the throttle threshold increases the throttle count.
C24_WarmupFeedsThrottleCount ==
  [][(/\ FrameMeasured
      /\ clock' - startTime < warmupMs
      /\ clock' - lastFrameTime > Ms(THROTTLE_THRESHOLD_MS)) =>
        /\ frameTimes' = frameTimes
        /\ throttleWarnings' = throttleWarnings + 1]_vars

\* C25: every stored iteration result, the zero-metric ones included,
\* carries the throttle count and the maximum gap of its own collector run,
\* and an interval of 200 ms or more that the sample filter rejects (a frame
\* of the measurement phase, at elapsed >= warmupMs) is counted in both.
C25_DiagnosticsCarried ==
  /\ [](\A i \in DOMAIN iterationResults :
          /\ iterationResults[i].throttleWarnings = throttleWarnings
          /\ iterationResults[i].maxFrameGap = RoundDiv(maxFrameGap, 100))
  /\ [][(/\ FrameMeasured
         /\ clock' - startTime >= warmupMs
         /\ clock' - lastFrameTime >= Ms(200)) =>
           /\ frameTimes' = frameTimes
           /\ throttleWarnings' = throttleWarnings + 1
           /\ maxFrameGap' >= clock' - lastFrameTime]_vars

\* C26: frames arriving, every collector settles in the end; it resolves on
\* a frame whose elapsed time has reached warmupMs + durationMs, the first
\* such, and once settled it requests no frame, runs no callback and hands
\* the adapter no animated collection.
C26_CollectorSettles ==
  /\ <>(collectorPromise.state # "pending")
  /\ [][(collectorPromise.state = "pending" /\ collectorPromise'.state = "resolved") =>
          /\ clock' - startTime >= warmupMs + durationMs
          /\ clock - startTime < warmupMs + durationMs]_vars
  /\ [][collectorPromise.state # "pending" =>
          /\ ~framePending'
          /\ clock' = clock
          /\ backendPoints'.kind = "animated" => backendPoints' = backendPoints]_vars

\* C27: the first frame callback that finds the signal aborted removes the
\* listener, leaves no frame requested, hands the adapter nothing, records
\* no sample, computes no metric and rejects with the cancellation error;
\* the caller stores no iteration result for the test.
C27_AbortedFrameOnlyRejects ==
  /\ [][(framePending /\ signalAborted /\ clock' # clock) =>
          /\ ~listening'
          /\ ~framePending'
          /\ backendPoints' = backendPoints
          /\ frameTimes' = frameTimes
          /\ resolved' = Null
          /\ UNCHANGED <<lastFrameTime, isWarmup, maxFrameGap, throttleWarnings>>
          /\ collectorPromise' = [state |-> "rejected", error |-> CancelledMsg]]_vars
  /\ [](collectorPromise.state = "rejected" => iterationResults = <<>>)
  /\ [](testPc = "caught" => collectorPromise.state = "rejected")

\* The caller has caught the rejection of a collector that was aborted in the
\* measurement phase, with samples recorded.
C27_CaughtAfterSamples ==
  /\ testPc = "caught"
  /\ signalAborted
  /\ ~listening
  /\ ~framePending
  /\ frameTimes # <<>>
  /\ backendPoints.kind = "animated"
  /\ iterationResults = <<>>

\* -------------------------------------------------------------------- C29
BenchmarkHiddenLayers == {"polygons", "lines", "heatmap", "cluster"}

\* C29: when a test restores the layers, every layer of (polygons, lines,
\* heatmap, cluster) has in the backend the visibility it had before the
\* test, and that is what the UI's layerState says, whatever layers the user
\* had chosen before the benchmark.
C29_RestoreReturnsPreTestLayers ==
  [][(underTest # "none" /\ underTest' = "none") =>
       \A layer \in BenchmarkHiddenLayers :
         /\ layerVisibility'[underTest][layer] = preTestVisibility[layer]
         /\ layerVisibility'[underTest][layer] = layerState'[layer]]_vars

\* -------------------------------------------------------------------- C30
\* C30: the cached base workload is never mutated: after any number of
\* animation frames it equals what was generated, a frame writes to the
\* scratch buffer only, and the collection the static reset after a test
\* hands the backend has the generated base positions.
C30_BaseWorkloadNeverMutated ==
  /\ [](\A r \in RunIds : pointDataCache[r] = generated[r])
  /\ [][lastUpdate' # lastUpdate => pointDataCache' = pointDataCache]_vars
  /\ [](adapterPoints # Null /\ adapterPoints.call = "reset" =>
          \A i \in DOMAIN adapterPoints.points.features :
            adapterPoints.points.features[i].coordinates =
              generated[adapterPoints.run].features[i].coordinates)

\* The static reset has handed the backend the base workload after frames
\* that moved every point of the scratch buffer away from its base position.
C30_ResetAfterAnimation ==
  /\ adapterPoints # Null
  /\ adapterPoints.call = "reset"
  /\ pointCount \in DOMAIN bufferMap
  /\ \A i \in DOMAIN adapterPoints.points.features :
       bufferMap[pointCount].animatedPoints.features[i].coordinates #
         adapterPoints.points.features[i].coordinates
  /\ Len(adapterPoints.points.features) = MaxPoints

\* -------------------------------------------------------------------- C31
\* The positions of the samples lying in [Q1 - 1.5 IQR, Q3 + 1.5 IQR], with
\* Q1 and Q3 the elements at the 0-based indices floor(n/4) and floor(3n/4)
\* of the sorted samples.
PositionsInRange(samples) ==
  LET n == Len(samples)
      sorted == SortNum(samples)
      q1 == sorted[(n \div 4) + 1]
      q3 == sorted[((3 * n) \div 4) + 1]
      iqr == q3 - q1
  IN {i \in 1..n : /\ 2 * samples[i] >= 2 * q1 - 3 * iqr
                   /\ 2 * samples[i] <= 2 * q3 + 3 * iqr}

\* The j-th smallest member of a set of positions.
NthPosition(positions, j) ==
  CHOOSE i \in positions : Cardinality({k \in positions : k <= i}) = j

\* C31: for a list of at least 10 samples the outlier filter keeps exactly
\* the samples t with Q1 - 1.5 IQR <= t <= Q3 + 1.5 IQR, in their original
\* order; the samples lying between Q1 and Q3 are always kept.
C31_FilterKeepsExactlyTheRange ==
  (filtered # Null /\ Len(filtered.input) >= MinSamples) =>
    LET samples == filtered.input
        n == Len(samples)
        sorted == SortNum(samples)
        positions == PositionsInRange(samples)
    IN /\ Len(filtered.output) = Cardinality(positions)
       /\ \A j \in 1..Len(filtered.output) :
            filtered.output[j] = samples[NthPosition(positions, j)]
       /\ \A i \in 1..n :
            (sorted[(n \div 4) + 1] <= samples[i] /\
             samples[i] <= sorted[((3 * n) \div 4) + 1]) => i \in positions

\* The filter has dropped some, not all, of twelve raw samples.
C31_SomeSamplesDropped ==
  /\ filtered # Null
  /\ filtered.input = frameTimes
  /\ Len(filtered.input) = MaxSamples
  /\ Len(filtered.output) < Len(filtered.input)
  /\ Len(filtered.output) >= MinSamples

\* -------------------------------------------------------------------- C32
\* The orderings of the configurations.
PermutationsOfTests ==
  {order \in [DOMAIN SourceTests -> Range(SourceTests)] :
     Range(order) = Range(SourceTests)}

\* C32: the order is drawn anew for each iteration: whatever the earlier
\* iterations drew, every permutation of the configurations can be the order
\* of the next iteration (and every order drawn is a permutation).
C32_EveryOrderInEveryIteration ==
  /\ \A k \in DOMAIN testOrders : testOrders[k] \in PermutationsOfTests
  /\ Len(testOrders) < ITERATIONS =>
       \A order \in PermutationsOfTests :
         ENABLED (DrawTestOrder /\ testOrders' = Append(testOrders, order))

\* Two iterations of a run have been given different orders.
C32_TwoIterationsDiffer ==
  /\ Len(testOrders) = ITERATIONS
  /\ testOrders[1] # testOrders[2]
  /\ testOrders[1] = SourceTests

\* -------------------------------------------------------------------- C33
\* C33: when the test has ended, by storing its result or in the catch
\* clause (cancellation, error), every backend shows the layers the
\* benchmark hides as the user had them, and the backend under test holds
\* the static workload.
C33_EndedTestLeavesNoTrace ==
  testPc \in {"stored", "caught"} =>
    /\ \A lib \in Range(LIBRARIES), layer \in BenchmarkHiddenLayers :
         layerVisibility[lib][layer] = layerState[layer]
    /\ backendPoints = BasePoints

\* -------------------------------------------------------------------- C34
\* radius of updateAnimatedPoints for the feature at index i (1-based).
AnimationRadius(i) == 2000 + ((i - 1) % 10) * 500

Distance(a, b) == IF a >= b THEN a - b ELSE b - a

\* C34: the animated positions a frame hands to the backend lie, feature by
\* feature, within the animation radius of the base positions of the
\* workload the frame's run has loaded, also when the scratch buffer was
\* made by an earlier run.
C34_AnimatedAroundLoadedWorkload ==
  (adapterPoints # Null /\ adapterPoints.call = "animate") =>
    LET base == pointDataCache[adapterPoints.run].features
        animated == adapterPoints.points.features
    IN \A i \in DOMAIN base :
         /\ Distance(animated[i].coordinates[1], base[i].coordinates[1])
              <= AnimationRadius(i)
         /\ Distance(animated[i].coordinates[2], base[i].coordinates[2])
              <= AnimationRadius(i)

\* -------------------------------------------------------------------- C35
Ordered(m) ==
  /\ m.minFps <= m.medianFps /\ m.medianFps <= m.maxFps
  /\ m.minFps <= m.avgFps /\ m.avgFps <= m.maxFps

\* The zero-metric result: it has no medianFps.
Degenerate(m) == m.medianFps = Undefined

\* C35: in the metrics just computed from ten or more samples, in every
\* stored non-degenerate iteration result and in the combined result of any
\* mix of stored results, minFps <= medianFps <= maxFps and
\* minFps <= avgFps <= maxFps.
C35_RatesOrdered ==
  /\ (sampleMetrics # Null /\ ~Degenerate(sampleMetrics)) => Ordered(sampleMetrics)
  /\ \A k \in DOMAIN iterationResults :
       ~Degenerate(iterationResults[k]) => Ordered(iterationResults[k])
  /\ combinedResult # Null => Ordered(combinedResult)

\* A combined result of a degenerate iteration, one of fast frames only and
\* one with slow frames, whose rates are all different.
C35_MixedIterationsCombined ==
  /\ combinedResult # Null
  /\ \E k \in DOMAIN iterationResults : Degenerate(iterationResults[k])
  /\ \E k \in DOMAIN iterationResults :
       /\ ~Degenerate(iterationResults[k])
       /\ iterationResults[k].minFps < iterationResults[k].avgFps
       /\ iterationResults[k].avgFps < iterationResults[k].maxFps
  /\ combinedResult.minFps < combinedResult.avgFps
  /\ combinedResult.avgFps < combinedResult.medianFps

\* -------------------------------------------------------------------- C36
\* C36: the outliersExcluded of a result computed from ten or more samples
\* is the number of raw samples less the number of samples its statistics
\* were taken from (all of them when the fallback is taken), and the
\* combined totalOutliersExcluded is the sum of the iterations' counts.
C36_OutliersAccounted ==
  /\ (sampleMetrics # Null /\ Len(frameTimes) >= MinSamples) =>
       LET used == Fallback(frameTimes, IQRFilter(frameTimes))
       IN /\ StatsOf(used).avgFrameTime = sampleMetrics.avgFrameTime
          /\ sampleMetrics.outliersExcluded = Len(frameTimes) - Len(used)
  /\ combinedResult # Null =>
       combinedResult.totalOutliersExcluded =
         SumSeq([k \in DOMAIN iterationResults |->
                   iterationResults[k].outliersExcluded])

\* -------------------------------------------------------------------- C37
\* C37: when the collector has resolved, its maximum gap (before rounding)
\* is at least every sample it recorded, and a recorded sample above the
\* throttle threshold means a throttle count of one or more; this includes
\* the sample of the frame on which the warmup ended.
C37_DiagnosticsCoverSamples ==
  collectorPromise.state = "resolved" =>
    \A i \in DOMAIN frameTimes :
      /\ maxFrameGap >= frameTimes[i]
      /\ frameTimes[i] > Ms(THROTTLE_THRESHOLD_MS) => throttleWarnings >= 1

\* -------------------------------------------------------------------- C38
\* C38: while a test measures a backend, that backend shows its points
\* layer, whatever layers the user had set before the benchmark.
C38_PointsVisibleUnderTest ==
  underTest # "none" => layerVisibility[underTest]["points"]

====
